---- MODULE Spec2Model ----
(***************************************************************************)
(* Model of multilc_accuracy_areaEstimation_uq_interactive.py: the         *)
(* "Run Analysis" callback run_analysis and the five estimation functions  *)
(* it calls (stratified accuracy / area estimation after Olofsson et al.). *)
(*                                                                         *)
(* Numbers.  A float64 is carried as an exact extended rational            *)
(*     <<n, d>>   d > 0, gcd(n, d) = 1   the finite value n/d              *)
(*     <<1, 0>>, <<-1, 0>>               +inf, -inf                        *)
(*     <<0, 0>>                          NaN                               *)
(* so that sums and quotients are the "exact arithmetic" values and the    *)
(* IEEE special values (0/0, x/0, NaN propagation, NaN != 0) behave as in  *)
(* numpy, which warns but never raises on them.  Every zero divisor the    *)
(* program forms is a +0.0 (n - 1 with n = 1, or a sum of non-negative     *)
(* counts), so x/0 takes the sign of x.  A scaled square root k * sqrt(v)  *)
(* is carried as <<k, v, 2>>, and a zero one as <<1, 0, 2>>.               *)
(* Indices are 1..q here and 0..q-1 in the Python source.                  *)
(***************************************************************************)
EXTENDS Integers, Sequences, FiniteSets, TLC

(* Bounds of the checked input space. *)
MaxCount == 3
MaxPixels == 2
MaxPixelSize == 2

(* The session modelled is one where setup_matrix_inputs read "2". *)
num_classes == 2

Classes == 1..num_classes

(***************************************************************************)
(* Extended rational arithmetic (numpy float64 semantics, exact values).   *)
(***************************************************************************)
NaN == <<0, 0>>
Zero == <<0, 1>>
One == <<1, 1>>

Abs(n) == IF n < 0 THEN -n ELSE n

Sgn(n) == IF n > 0 THEN 1 ELSE IF n < 0 THEN -1 ELSE 0

RECURSIVE GCD(_, _)
GCD(a, b) == IF b = 0 THEN a ELSE GCD(b, a % b)

Norm(n, d) ==
    LET g == GCD(Abs(n), d) IN <<n \div g, d \div g>>

F(k) == <<k, 1>>

IsNaN(a) == a = NaN

IsFinite(a) == a[2] # 0

Neg(a) == <<-a[1], a[2]>>

Add(a, b) ==
    IF IsFinite(a) /\ IsFinite(b) THEN
        LET g == GCD(a[2], b[2]) IN
        Norm(a[1] * (b[2] \div g) + b[1] * (a[2] \div g), (a[2] \div g) * b[2])
    ELSE IF IsNaN(a) \/ IsNaN(b) THEN NaN
    ELSE IF IsFinite(b) THEN a
    ELSE IF IsFinite(a) THEN b
    ELSE IF a = b THEN a ELSE NaN

Sub(a, b) == Add(a, Neg(b))

Mul(a, b) ==
    IF IsFinite(a) /\ IsFinite(b) THEN
        LET g1 == GCD(Abs(a[1]), b[2])
            g2 == GCD(Abs(b[1]), a[2])
        IN  Norm((a[1] \div g1) * (b[1] \div g2), (a[2] \div g2) * (b[2] \div g1))
    ELSE IF IsNaN(a) \/ IsNaN(b) THEN NaN
    ELSE IF Sgn(a[1]) * Sgn(b[1]) = 0 THEN NaN
    ELSE <<Sgn(a[1]) * Sgn(b[1]), 0>>

Div(a, b) ==
    IF IsNaN(a) \/ IsNaN(b) THEN NaN
    ELSE IF b = Zero THEN <<Sgn(a[1]), 0>>
    ELSE IF ~IsFinite(b) THEN (IF IsFinite(a) THEN Zero ELSE NaN)
    ELSE IF ~IsFinite(a) THEN <<Sgn(a[1]) * Sgn(b[1]), 0>>
    ELSE Mul(a, IF b[1] > 0 THEN <<b[2], b[1]>> ELSE <<-b[2], -b[1]>>)

(* a > b on floats; any comparison with NaN is false. *)
Gt(a, b) ==
    /\ ~IsNaN(a) /\ ~IsNaN(b)
    /\ a # b
    /\ IF IsFinite(a) /\ IsFinite(b) THEN a[1] * b[2] > b[1] * a[2]
       ELSE IF IsFinite(b) THEN a[1] > 0
       ELSE IF IsFinite(a) THEN b[1] < 0
       ELSE a[1] > b[1]

Ge(a, b) == ~IsNaN(a) /\ ~IsNaN(b) /\ (a = b \/ Gt(a, b))

(* np.sqrt: NaN for NaN and for negative arguments (a warning, no raise). *)
np_sqrt(v) ==
    IF IsNaN(v) \/ v[1] < 0 THEN NaN ELSE <<One, v, 2>>

(* c * s for a float c >= 0 and a root (or NaN) s = k * sqrt(v). *)
ScaleRoot(c, s) ==
    IF IsNaN(c) \/ IsNaN(s) THEN NaN
    ELSE LET k == Mul(c, s[1]) IN
         IF IsNaN(k) THEN NaN
         ELSE IF (k = Zero /\ ~IsFinite(s[2])) \/ (~IsFinite(k) /\ s[2] = Zero)
         THEN NaN
         ELSE IF k = Zero \/ s[2] = Zero THEN <<One, Zero, 2>>
         ELSE <<k, s[2], 2>>

(* np.sum / np.trace / Python sum over a sequence, left to right from 0. *)
RECURSIVE SumSeq(_)
SumSeq(s) ==
    IF s = <<>> THEN Zero ELSE Add(SumSeq(SubSeq(s, 1, Len(s) - 1)), s[Len(s)])

Column(M, j) == [i \in Classes |-> M[i][j]]

Diagonal(M) == [i \in Classes |-> M[i][i]]

(* st.norm.ppf(1 - (1 - 0.95) / 2) = 1.95996..., carried as 49/25. *)
z_score == <<49, 25>>

(***************************************************************************)
(* Entry widgets hold text; float() converts it or raises ValueError.      *)
(***************************************************************************)
Numeral(k) == <<"0", "1", "2", "3", "4", "5", "6", "7", "8", "9">>[k + 1]

IsNumeric(s) == \E k \in 0..9 : Numeral(k) = s

float(s) == F(CHOOSE k \in 0..9 : Numeral(k) = s)

(* An entry left as constructed is empty, and float("") raises. *)
EmptyText == ""

CountTexts == {Numeral(k) : k \in 0..MaxCount} \cup {EmptyText}
PixelTexts == {Numeral(k) : k \in 0..MaxPixels} \cup {EmptyText}
SizeTexts == {Numeral(k) : k \in 1..MaxPixelSize} \cup {EmptyText}

(***************************************************************************)
(* The estimation functions.                                               *)
(***************************************************************************)
calculate_weights(mp) ==
    LET total_pixels == SumSeq(mp)
    IN  [i \in Classes |-> Div(mp[i], total_pixels)]

(* Mutant: the row is scaled by its weight but not divided by row_total. *)
convert_to_area_proportion_NoRowTotal(em, w) ==
    [i \in Classes |->
        LET row_total == SumSeq(em[i]) IN
        IF row_total # Zero
        THEN [j \in Classes |-> Mul(w[i], em[i][j])]
        ELSE [j \in Classes |-> NaN]]

(* Mutant: a row without samples becomes a row of zeros instead of NaN. *)
convert_to_area_proportion_ZeroRow(em, w) ==
    [i \in Classes |->
        LET row_total == SumSeq(em[i]) IN
        IF row_total # Zero
        THEN [j \in Classes |-> Mul(w[i], Div(em[i][j], row_total))]
        ELSE [j \in Classes |-> Zero]]

convert_to_area_proportion(em, w) ==
    [i \in Classes |->
        LET row_total == SumSeq(em[i]) IN
        IF row_total # Zero
        THEN [j \in Classes |-> Mul(w[i], Div(em[i][j], row_total))]
        ELSE [j \in Classes |-> NaN]]

(* A local variable that no statement has assigned yet. *)
Unbound == <<>>

(* Mutant: "p_ii / p_i_dot if p_i_dot > 0 else 0.0". *)
UserAccuracy_ZeroDefault(apm, i) ==
    LET p_ii == apm[i][i]
        p_i_dot == SumSeq(apm[i])
    IN  IF Gt(p_i_dot, Zero) THEN Div(p_ii, p_i_dot) ELSE Zero

(* Mutant: the diagonal proportion itself, not its share of the row. *)
UserAccuracy_NoRowShare(apm, i) ==
    LET p_ii == apm[i][i]
        p_i_dot == SumSeq(apm[i])
    IN  IF p_i_dot # Zero THEN p_ii ELSE NaN

(* Lines 72-74: the user's accuracy of row i. *)
UserAccuracy(apm, i) ==
    LET p_ii == apm[i][i]
        p_i_dot == SumSeq(apm[i])
    IN  IF p_i_dot # Zero THEN Div(p_ii, p_i_dot) ELSE NaN

(* Lines 77-91: the standard error appended for row i. *)
UserAccuracySE(U, n) ==
    IF Gt(n, One)
    THEN np_sqrt(Div(Mul(U, Sub(One, U)), Sub(n, One)))
    ELSE NaN

(* The user's-accuracy loop after k iterations: the lists built so far and *)
(* the loop's locals U_i and n_i_dot, which stay bound after the loop.     *)
RECURSIVE UserLoop(_, _, _)
UserLoop(apm, em, k) ==
    IF k = 0 THEN
        [user_accuracy |-> <<>>, user_accuracy_se |-> <<>>,
         user_accuracy_ci_value |-> <<>>, U_i |-> Unbound, n_i_dot |-> Unbound]
    ELSE
        LET prev == UserLoop(apm, em, k - 1)
            U == UserAccuracy(apm, k)
            n == SumSeq(em[k])
            se == UserAccuracySE(U, n)
        IN  [user_accuracy |-> Append(prev.user_accuracy, U),
             user_accuracy_se |-> Append(prev.user_accuracy_se, se),
             user_accuracy_ci_value |->
                 Append(prev.user_accuracy_ci_value, ScaleRoot(z_score, se)),
             U_i |-> U, n_i_dot |-> n]

(* Lines 95-97. *)
ProducerAccuracy(apm, j) ==
    LET p_jj == apm[j][j]
        p_dot_j == SumSeq(Column(apm, j))
    IN  IF p_dot_j # Zero THEN Div(p_jj, p_dot_j) ELSE NaN

(* Lines 104-107: the generator summed for column j.  Its i is the         *)
(* generator's own; n_i_dot is the enclosing function's variable.          *)
RECURSIVE OffDiagonalSum(_, _, _, _)
OffDiagonalSum(em, j, n_i_dot, k) ==
    IF k = 0 THEN Zero
    ELSE IF k = j THEN OffDiagonalSum(em, j, n_i_dot, k - 1)
    ELSE Add(OffDiagonalSum(em, j, n_i_dot, k - 1),
             Div(Mul(Div(em[k][j], n_i_dot),
                     Sub(One, Div(em[k][j], n_i_dot))),
                 Sub(n_i_dot, One)))

(* Lines 102-108, with U_i and n_i_dot as the user's loop left them. *)
variance_P_j(em, j, P_j, U_i, n_i_dot) ==
    LET n_dot_j == SumSeq(Column(em, j))
        sq == Mul(n_dot_j, n_dot_j)
    IN  Mul(Div(One, sq),
            Add(Div(Mul(Mul(Mul(sq, Mul(Sub(One, P_j), Sub(One, P_j))), U_i),
                        Sub(One, U_i)),
                    Sub(n_i_dot, One)),
                Mul(Mul(P_j, P_j),
                    OffDiagonalSum(em, j, n_i_dot, num_classes))))

(* Mutant: the exclusion rule "!= 1" instead of "> 1". *)
RECURSIVE OverallVariance_NotOne(_, _, _, _)
OverallVariance_NotOne(em, w, ua, k) ==
    IF k = 0 THEN Zero
    ELSE IF SumSeq(em[k]) # One
    THEN Add(OverallVariance_NotOne(em, w, ua, k - 1),
             Div(Mul(Mul(Mul(w[k], w[k]), ua[k]), Sub(One, ua[k])),
                 Sub(SumSeq(em[k]), One)))
    ELSE OverallVariance_NotOne(em, w, ua, k - 1)

(* Lines 124-127: the generator summed for the overall accuracy. *)
RECURSIVE OverallVariance(_, _, _, _)
OverallVariance(em, w, ua, k) ==
    IF k = 0 THEN Zero
    ELSE IF Gt(SumSeq(em[k]), One)
    THEN Add(OverallVariance(em, w, ua, k - 1),
             Div(Mul(Mul(Mul(w[k], w[k]), ua[k]), Sub(One, ua[k])),
                 Sub(SumSeq(em[k]), One)))
    ELSE OverallVariance(em, w, ua, k - 1)

calculate_accuracy_metrics(apm, em, w) ==
    LET user == UserLoop(apm, em, num_classes)
        P == [j \in Classes |-> ProducerAccuracy(apm, j)]
        varP == [j \in Classes |->
                    IF Gt(SumSeq(Column(em, j)), One)
                    THEN variance_P_j(em, j, P[j], user.U_i, user.n_i_dot)
                    ELSE Unbound]
        seP == [j \in Classes |->
                    IF Gt(SumSeq(Column(em, j)), One)
                    THEN np_sqrt(varP[j]) ELSE NaN]
        overall_se == np_sqrt(OverallVariance(em, w, user.user_accuracy,
                                              num_classes))
    IN  [user_accuracy |-> user.user_accuracy,
         user_accuracy_se |-> user.user_accuracy_se,
         user_accuracy_ci_value |-> user.user_accuracy_ci_value,
         producer_accuracy |-> P,
         variance_P_j |-> varP,
         producer_accuracy_se |-> seP,
         producer_accuracy_ci_value |->
             [j \in Classes |-> ScaleRoot(z_score, seP[j])],
         overall_accuracy |-> SumSeq(Diagonal(apm)),
         overall_accuracy_se |-> overall_se,
         overall_accuracy_ci_value |-> ScaleRoot(z_score, overall_se)]

(* Mutant: the diagonal proportion instead of the column sum. *)
calculate_error_adjusted_area_Diagonal(apm, ta) ==
    [j \in Classes |-> Mul(ta, apm[j][j])]

calculate_error_adjusted_area(apm, ta) ==
    [j \in Classes |-> Mul(ta, SumSeq(Column(apm, j)))]

(* Lines 160-165: se_j_squared after the rows 1..k. *)
RECURSIVE se_j_squared(_, _, _, _)
se_j_squared(em, w, j, k) ==
    IF k = 0 THEN Zero
    ELSE LET n_ij == em[k][j]
             n_i_dot == SumSeq(em[k])
         IN  IF Gt(n_i_dot, One)
             THEN Add(se_j_squared(em, w, j, k - 1),
                      Div(Mul(Mul(Mul(w[k], w[k]), Div(n_ij, n_i_dot)),
                              Sub(One, Div(n_ij, n_i_dot))),
                          Sub(n_i_dot, One)))
             ELSE se_j_squared(em, w, j, k - 1)

calculate_standard_error_and_ci(em, w, ta) ==
    [standard_errors |->
        [j \in Classes |->
            ScaleRoot(ta, np_sqrt(se_j_squared(em, w, j, num_classes)))]]

(***************************************************************************)
(* run_analysis, one statement at a time.                                  *)
(***************************************************************************)
VARIABLES
    entry_pixel_size,       \* text of the pixel-size entry
    error_entries,          \* text of the q*q matrix entries
    mapped_pixel_entries,   \* text of the q mapped-pixel entries
    pc,                     \* the statement run_analysis executes next
    parsed,                 \* number of float() conversions that returned
    pixel_size, error_matrix, mapped_pixels,
    weights, area_proportion_matrix, total_area,
    accuracy_metrics, error_adjusted_area, area_standard_errors,
    area_ci_values,
    results_window,         \* the Results Toplevel exists
    error_dialog            \* messagebox.showerror was called

entries == <<entry_pixel_size, error_entries, mapped_pixel_entries>>

inputs == <<pixel_size, error_matrix, mapped_pixels>>

derived == <<weights, area_proportion_matrix, total_area, accuracy_metrics,
             error_adjusted_area, area_standard_errors, area_ci_values>>

vars == <<entries, pc, parsed, inputs, derived, results_window, error_dialog>>

NumFields == 1 + num_classes * (num_classes + 1)

(* The k-th conversion of the nested loop of lines 191-194, k >= 1. *)
FieldRow(k) == ((k - 1) \div (num_classes + 1)) + 1

FieldCol(k) == ((k - 1) % (num_classes + 1)) + 1

FieldText(k) ==
    IF FieldCol(k) <= num_classes
    THEN error_entries[FieldRow(k)][FieldCol(k)]
    ELSE mapped_pixel_entries[FieldRow(k)]

Init ==
    /\ entry_pixel_size \in SizeTexts
    /\ error_entries \in [Classes -> [Classes -> CountTexts]]
    /\ mapped_pixel_entries \in [Classes -> PixelTexts]
    /\ pc = "pixel_size"
    /\ parsed = 0
    /\ pixel_size = Unbound /\ error_matrix = Unbound /\ mapped_pixels = Unbound
    /\ weights = Unbound /\ area_proportion_matrix = Unbound
    /\ total_area = Unbound /\ accuracy_metrics = Unbound
    /\ error_adjusted_area = Unbound /\ area_standard_errors = Unbound
    /\ area_ci_values = Unbound
    /\ results_window = FALSE
    /\ error_dialog = FALSE

(* Lines 268-269: the except clause. *)
Raise ==
    /\ pc' = "error"
    /\ error_dialog' = TRUE

(* Lines 187-189. *)
ParsePixelSize ==
    /\ pc = "pixel_size"
    /\ IF IsNumeric(entry_pixel_size)
       THEN /\ pixel_size' = float(entry_pixel_size)
            /\ error_matrix' = [i \in Classes |-> [j \in Classes |-> Zero]]
            /\ mapped_pixels' = [i \in Classes |-> Zero]
            /\ parsed' = parsed + 1
            /\ pc' = "fields"
            /\ UNCHANGED error_dialog
       ELSE /\ Raise
            /\ UNCHANGED <<inputs, parsed>>
    /\ UNCHANGED <<entries, derived, results_window>>

(* Mutant: a field that does not convert is skipped and left at 0. *)
ParseField_SkipInvalid ==
    /\ pc = "fields"
    /\ LET k == parsed IN
       /\ IF ~IsNumeric(FieldText(k))
          THEN UNCHANGED <<error_matrix, mapped_pixels>>
          ELSE IF FieldCol(k) <= num_classes
          THEN /\ error_matrix' =
                      [error_matrix EXCEPT
                          ![FieldRow(k)][FieldCol(k)] = float(FieldText(k))]
               /\ UNCHANGED mapped_pixels
          ELSE /\ mapped_pixels' =
                      [mapped_pixels EXCEPT ![FieldRow(k)] = float(FieldText(k))]
               /\ UNCHANGED error_matrix
       /\ parsed' = parsed + 1
       /\ pc' = IF parsed + 1 = NumFields THEN "weights" ELSE "fields"
    /\ UNCHANGED <<pixel_size, error_dialog, entries, derived, results_window>>

(* Lines 191-194: one float() conversion of the nested loop. *)
ParseField ==
    /\ pc = "fields"
    /\ LET k == parsed IN
       IF IsNumeric(FieldText(k))
       THEN /\ IF FieldCol(k) <= num_classes
               THEN /\ error_matrix' =
                        [error_matrix EXCEPT
                            ![FieldRow(k)][FieldCol(k)] = float(FieldText(k))]
                    /\ UNCHANGED mapped_pixels
               ELSE /\ mapped_pixels' =
                        [mapped_pixels EXCEPT
                            ![FieldRow(k)] = float(FieldText(k))]
                    /\ UNCHANGED error_matrix
            /\ parsed' = parsed + 1
            /\ pc' = IF parsed + 1 = NumFields THEN "weights" ELSE "fields"
            /\ UNCHANGED <<pixel_size, error_dialog>>
       ELSE /\ Raise
            /\ UNCHANGED <<inputs, parsed>>
    /\ UNCHANGED <<entries, derived, results_window>>

(* Line 196. *)
CalculateWeights ==
    /\ pc = "weights"
    /\ weights' = calculate_weights(mapped_pixels)
    /\ pc' = "area_proportion"
    /\ UNCHANGED <<entries, parsed, inputs, area_proportion_matrix, total_area,
                   accuracy_metrics, error_adjusted_area, area_standard_errors,
                   area_ci_values, results_window, error_dialog>>

(* Line 197. *)
ConvertToAreaProportion ==
    /\ pc = "area_proportion"
    /\ area_proportion_matrix' = convert_to_area_proportion(error_matrix, weights)
    /\ pc' = "total_area"
    /\ UNCHANGED <<entries, parsed, inputs, weights, total_area,
                   accuracy_metrics, error_adjusted_area, area_standard_errors,
                   area_ci_values, results_window, error_dialog>>

(* Line 198. *)
TotalArea(mp, ps) == Mul(SumSeq(mp), Mul(ps, ps))

ComputeTotalArea ==
    /\ pc = "total_area"
    /\ total_area' = TotalArea(mapped_pixels, pixel_size)
    /\ pc' = "accuracy"
    /\ UNCHANGED <<entries, parsed, inputs, weights, area_proportion_matrix,
                   accuracy_metrics, error_adjusted_area, area_standard_errors,
                   area_ci_values, results_window, error_dialog>>

(* Line 199. *)
CalculateAccuracyMetrics ==
    /\ pc = "accuracy"
    /\ accuracy_metrics' =
           calculate_accuracy_metrics(area_proportion_matrix, error_matrix, weights)
    /\ pc' = "adjusted_area"
    /\ UNCHANGED <<entries, parsed, inputs, weights, area_proportion_matrix,
                   total_area, error_adjusted_area, area_standard_errors,
                   area_ci_values, results_window, error_dialog>>

(* Line 200. *)
CalculateErrorAdjustedArea ==
    /\ pc = "adjusted_area"
    /\ error_adjusted_area' =
           calculate_error_adjusted_area(area_proportion_matrix, total_area)
    /\ pc' = "area_se"
    /\ UNCHANGED <<entries, parsed, inputs, weights, area_proportion_matrix,
                   total_area, accuracy_metrics, area_standard_errors,
                   area_ci_values, results_window, error_dialog>>

(* Lines 203-211. *)
CalculateStandardErrorAndCI ==
    /\ pc = "area_se"
    /\ LET area_se_and_ci ==
               calculate_standard_error_and_ci(error_matrix, weights, total_area)
       IN  /\ area_standard_errors' = area_se_and_ci.standard_errors
           /\ area_ci_values' =
                  [j \in Classes |->
                      ScaleRoot(z_score, area_se_and_ci.standard_errors[j])]
    /\ pc' = "display"
    /\ UNCHANGED <<entries, parsed, inputs, weights, area_proportion_matrix,
                   total_area, accuracy_metrics, error_adjusted_area,
                   results_window, error_dialog>>

(* Lines 214-266: the Results window and its text. *)
ShowResults ==
    /\ pc = "display"
    /\ results_window' = TRUE
    /\ pc' = "shown"
    /\ UNCHANGED <<entries, parsed, inputs, derived, error_dialog>>

Next ==
    \/ ParsePixelSize
    \/ ParseField
    \/ CalculateWeights
    \/ ConvertToAreaProportion
    \/ ComputeTotalArea
    \/ CalculateAccuracyMetrics
    \/ CalculateErrorAdjustedArea
    \/ CalculateStandardErrorAndCI
    \/ ShowResults

Spec == Init /\ [][Next]_vars

(***************************************************************************)
(* Vocabulary of the properties: the parsed counts as integers.            *)
(***************************************************************************)
RECURSIVE IntSum(_, _)
IntSum(f, k) == IF k = 0 THEN 0 ELSE IntSum(f, k - 1) + f[k]

SampleCount(i, j) == error_matrix[i][j][1]

RowCount(i) == IntSum([j \in Classes |-> SampleCount(i, j)], num_classes)

ColCount(j) == IntSum([i \in Classes |-> SampleCount(i, j)], num_classes)

PixelCount(i) == mapped_pixels[i][1]

TotalPixels == IntSum([i \in Classes |-> PixelCount(i)], num_classes)

HasAreaProportion ==
    pc \in {"total_area", "accuracy", "adjusted_area", "area_se", "display", "shown"}

HasAccuracy == pc \in {"adjusted_area", "area_se", "display", "shown"}

HasAdjustedArea == pc \in {"area_se", "display", "shown"}

HasAllResults == pc \in {"display", "shown"}

(***************************************************************************)
(* C1: with total mapped pixels > 0, every row i of the area-proportion    *)
(* matrix whose error-matrix row sum is > 0 sums exactly to                *)
(* weight[i] = mapped_pixels[i] / sum(mapped_pixels), and each of its      *)
(* cells is weight[i] * error_matrix[i][j] / rowSum(i).                    *)
(***************************************************************************)
C1_RowsSumToWeight ==
    (HasAreaProportion /\ TotalPixels > 0) =>
        \A i \in Classes :
            RowCount(i) > 0 =>
                /\ weights[i] = Norm(PixelCount(i), TotalPixels)
                /\ SumSeq(area_proportion_matrix[i]) = weights[i]
                /\ \A j \in Classes :
                       area_proportion_matrix[i][j] =
                           Norm(PixelCount(i) * SampleCount(i, j),
                                TotalPixels * RowCount(i))

C1_Witness ==
    /\ HasAreaProportion
    /\ TotalPixels > 0
    /\ \E i \in Classes :
           /\ RowCount(i) > 1
           /\ PixelCount(i) > 0 /\ PixelCount(i) < TotalPixels
           /\ \A j \in Classes : SampleCount(i, j) > 0

(***************************************************************************)
(* C2: with total mapped pixels > 0 and every error-matrix row sum > 0,    *)
(* the error-adjusted areas sum over all classes to exactly                *)
(* totalArea = sum(mapped_pixels) * pixelSize^2.                           *)
(***************************************************************************)
C2_AreasSumToTotalArea ==
    (HasAdjustedArea /\ TotalPixels > 0 /\ \A i \in Classes : RowCount(i) > 0) =>
        SumSeq(error_adjusted_area) =
            F(TotalPixels * pixel_size[1] * pixel_size[1])

C2_Witness ==
    /\ HasAdjustedArea
    /\ TotalPixels > 0
    /\ pixel_size[1] > 1
    /\ \A i \in Classes : PixelCount(i) > 0
    /\ \A i, j \in Classes : SampleCount(i, j) > 0

(***************************************************************************)
(* C3: a class whose error-matrix row sum is 0 never makes the run raise,  *)
(* and its user's accuracy, standard error and CI half-width are all NaN,  *)
(* whatever the mapped-pixel counts and the other rows are.                *)
(***************************************************************************)
C3_ZeroRowIsUndefined ==
    /\ pc = "error" => parsed < NumFields
    /\ HasAccuracy =>
           \A i \in Classes :
               RowCount(i) = 0 =>
                   /\ IsNaN(accuracy_metrics.user_accuracy[i])
                   /\ IsNaN(accuracy_metrics.user_accuracy_se[i])
                   /\ IsNaN(accuracy_metrics.user_accuracy_ci_value[i])

C3_Witness ==
    /\ pc = "shown"
    /\ \E i \in Classes :
           /\ RowCount(i) = 0
           /\ PixelCount(i) > 0
           /\ \E k \in Classes : RowCount(k) > 1 /\ PixelCount(k) > 0

(***************************************************************************)
(* C4 as stated: a class whose row sample size is exactly 1 has a defined  *)
(* user's accuracy error_matrix[i][i] / n_i and NaN standard error and CI  *)
(* half-width, for every mapped-pixel vector.                              *)
(***************************************************************************)
C4_Original ==
    HasAccuracy =>
        \A i \in Classes :
            RowCount(i) = 1 =>
                /\ accuracy_metrics.user_accuracy[i] = F(SampleCount(i, i))
                /\ IsNaN(accuracy_metrics.user_accuracy_se[i])
                /\ IsNaN(accuracy_metrics.user_accuracy_ci_value[i])

(***************************************************************************)
(* C4 amended: the same, for every mapped-pixel vector that gives class i  *)
(* at least one mapped pixel.                                              *)
(***************************************************************************)
C4_SingleSampleRow ==
    HasAccuracy =>
        \A i \in Classes :
            (RowCount(i) = 1 /\ PixelCount(i) > 0) =>
                /\ accuracy_metrics.user_accuracy[i] = F(SampleCount(i, i))
                /\ IsNaN(accuracy_metrics.user_accuracy_se[i])
                /\ IsNaN(accuracy_metrics.user_accuracy_ci_value[i])

C4_Witness ==
    /\ pc = "shown"
    /\ \E i \in Classes :
           /\ RowCount(i) = 1
           /\ SampleCount(i, i) = 1
           /\ PixelCount(i) > 0 /\ PixelCount(i) < TotalPixels

(***************************************************************************)
(* C5: when the total of mapped pixels is 0, every output statistic (each  *)
(* user's accuracy, producer's accuracy, error-adjusted area, the overall  *)
(* accuracy, and the standard error and CI half-width of each) is NaN,     *)
(* for every error matrix.                                                 *)
(***************************************************************************)
C5_ZeroTotalAllUndefined ==
    (HasAllResults /\ TotalPixels = 0) =>
        /\ \A i \in Classes :
               /\ IsNaN(accuracy_metrics.user_accuracy[i])
               /\ IsNaN(accuracy_metrics.user_accuracy_se[i])
               /\ IsNaN(accuracy_metrics.user_accuracy_ci_value[i])
               /\ IsNaN(accuracy_metrics.producer_accuracy[i])
               /\ IsNaN(accuracy_metrics.producer_accuracy_se[i])
               /\ IsNaN(accuracy_metrics.producer_accuracy_ci_value[i])
               /\ IsNaN(error_adjusted_area[i])
               /\ IsNaN(area_standard_errors[i])
               /\ IsNaN(area_ci_values[i])
        /\ IsNaN(accuracy_metrics.overall_accuracy)
        /\ IsNaN(accuracy_metrics.overall_accuracy_se)
        /\ IsNaN(accuracy_metrics.overall_accuracy_ci_value)

(***************************************************************************)
(* C6: every input field is converted before any computation stage runs;   *)
(* a run with a non-numeric field ends at the error dialog with no stage   *)
(* executed and no results window, and a results window exists only once   *)
(* all five computation stages have completed.                             *)
(***************************************************************************)
SomeFieldNonNumeric ==
    \/ ~IsNumeric(entry_pixel_size)
    \/ \E i, j \in Classes : ~IsNumeric(error_entries[i][j])
    \/ \E i \in Classes : ~IsNumeric(mapped_pixel_entries[i])

NoStageExecuted ==
    /\ weights = Unbound
    /\ area_proportion_matrix = Unbound
    /\ accuracy_metrics = Unbound
    /\ error_adjusted_area = Unbound
    /\ area_standard_errors = Unbound

AllStagesExecuted ==
    /\ weights # Unbound
    /\ area_proportion_matrix # Unbound
    /\ accuracy_metrics # Unbound
    /\ error_adjusted_area # Unbound
    /\ area_standard_errors # Unbound

C6_ParseBeforeCompute ==
    /\ ~NoStageExecuted => parsed = NumFields
    /\ pc \in {"pixel_size", "fields"} => (NoStageExecuted /\ ENABLED Next)
    /\ SomeFieldNonNumeric =>
           (pc \in {"pixel_size", "fields", "error"} /\ ~results_window)
    /\ pc = "error" =>
           (SomeFieldNonNumeric /\ error_dialog /\ NoStageExecuted
            /\ ~results_window)
    /\ results_window => (AllStagesExecuted /\ pc = "shown" /\ ~error_dialog)

(* The last field read is the non-numeric one: all others were converted. *)
C6_Witness ==
    /\ pc = "error"
    /\ parsed = NumFields - 1
    /\ IsNumeric(entry_pixel_size)
    /\ \A i, j \in Classes : IsNumeric(error_entries[i][j])

(***************************************************************************)
(* C7: for every column j with column sample size n_col_j > 1 the          *)
(* producer's-accuracy variance is                                         *)
(*   (1/n_col_j^2) * [ n_col_j^2 (1-P_j)^2 U_last (1-U_last)/(n_last - 1)  *)
(*     + P_j^2 * SUM_{i # j} (e[i][j]/n_i)(1 - e[i][j]/n_i)/(n_i - 1) ]    *)
(* where only the first term takes U_last and n_last from class q-1 and    *)
(* each n_i in the sum is the sample size of the row i being summed.       *)
(***************************************************************************)
RECURSIVE PerRowSum(_, _)
PerRowSum(j, k) ==
    IF k = 0 THEN Zero
    ELSE IF k = j THEN PerRowSum(j, k - 1)
    ELSE LET r == Div(F(SampleCount(k, j)), F(RowCount(k)))
         IN  Add(PerRowSum(j, k - 1),
                 Div(Mul(r, Sub(One, r)), F(RowCount(k) - 1)))

StatedVariance(j) ==
    LET P_j == accuracy_metrics.producer_accuracy[j]
        U_last == accuracy_metrics.user_accuracy[num_classes]
        n_last == RowCount(num_classes)
        nn == F(ColCount(j) * ColCount(j))
    IN  Mul(Div(One, nn),
            Add(Div(Mul(Mul(Mul(nn, Mul(Sub(One, P_j), Sub(One, P_j))), U_last),
                        Sub(One, U_last)),
                    F(n_last - 1)),
                Mul(Mul(P_j, P_j), PerRowSum(j, num_classes))))

C7_ProducerVariancePerRow ==
    HasAccuracy =>
        \A j \in Classes :
            ColCount(j) > 1 =>
                accuracy_metrics.variance_P_j[j] = StatedVariance(j)

(***************************************************************************)
(* C8 as stated: whenever total mapped pixels > 0, a class whose user's    *)
(* accuracy is NaN is left out of the overall-accuracy variance sum, so it *)
(* never makes the overall standard error or CI half-width NaN.            *)
(***************************************************************************)
C8_Original ==
    (HasAccuracy /\ TotalPixels > 0) =>
        ((\E i \in Classes : IsNaN(accuracy_metrics.user_accuracy[i])) =>
            /\ ~IsNaN(accuracy_metrics.overall_accuracy_se)
            /\ ~IsNaN(accuracy_metrics.overall_accuracy_ci_value))

(***************************************************************************)
(* C8 amended: whenever total mapped pixels > 0, a class whose user's      *)
(* accuracy is NaN is left out of the sum when its row sample size is      *)
(* <= 1 (in particular when its row sum is 0); the overall standard error  *)
(* and CI half-width are NaN exactly when some class with row sample size  *)
(* > 1 has zero mapped pixels, and otherwise the standard error is the     *)
(* root of SUM_{n_i > 1} weight[i]^2 * U_i(1-U_i)/(n_i - 1) with           *)
(* U_i = e[i][i]/n_i.                                                      *)
(***************************************************************************)
RECURSIVE CountVariance(_)
CountVariance(k) ==
    IF k = 0 THEN Zero
    ELSE IF RowCount(k) > 1
    THEN Add(CountVariance(k - 1),
             Norm(PixelCount(k) * PixelCount(k) * SampleCount(k, k)
                      * (RowCount(k) - SampleCount(k, k)),
                  TotalPixels * TotalPixels * RowCount(k) * RowCount(k)
                      * (RowCount(k) - 1)))
    ELSE CountVariance(k - 1)

C8_OverallSEDefinedness ==
    (HasAccuracy /\ TotalPixels > 0) =>
        IF \E i \in Classes : RowCount(i) > 1 /\ PixelCount(i) = 0
        THEN /\ IsNaN(accuracy_metrics.overall_accuracy_se)
             /\ IsNaN(accuracy_metrics.overall_accuracy_ci_value)
        ELSE /\ accuracy_metrics.overall_accuracy_se =
                    np_sqrt(CountVariance(num_classes))
             /\ ~IsNaN(accuracy_metrics.overall_accuracy_ci_value)

C8_Witness ==
    /\ pc = "shown"
    /\ \E i, k \in Classes :
           /\ RowCount(i) = 0
           /\ IsNaN(accuracy_metrics.user_accuracy[i])
           /\ PixelCount(i) > 0
           /\ RowCount(k) > 1 /\ PixelCount(k) > 0
           /\ SampleCount(k, k) > 0 /\ SampleCount(k, k) < RowCount(k)
    /\ ~IsNaN(accuracy_metrics.overall_accuracy_se)

(***************************************************************************)
(* C9: if some error-matrix row has row sum 0 then, for every class j, the *)
(* producer's accuracy and the error-adjusted area are NaN and the overall *)
(* accuracy is NaN; the user's accuracies that stay defined are exactly    *)
(* those of the rows with positive row sum and positive weight.            *)
(***************************************************************************)
C9_ZeroRowSpreads ==
    (HasAllResults /\ \E i \in Classes : RowCount(i) = 0) =>
        /\ \A j \in Classes :
               /\ IsNaN(accuracy_metrics.producer_accuracy[j])
               /\ IsNaN(error_adjusted_area[j])
        /\ IsNaN(accuracy_metrics.overall_accuracy)
        /\ \A i \in Classes :
               ~IsNaN(accuracy_metrics.user_accuracy[i]) <=>
                   (RowCount(i) > 0 /\ PixelCount(i) > 0)

C9_Witness ==
    /\ pc = "shown"
    /\ \E i, j \in Classes :
           /\ RowCount(i) = 0 /\ PixelCount(i) > 0
           /\ RowCount(j) > 1 /\ ColCount(j) > 1 /\ PixelCount(j) > 0
           /\ ~IsNaN(accuracy_metrics.user_accuracy[j])

(***************************************************************************)
(* C10: for every error matrix of non-negative integer counts whose row    *)
(* sums and column sums are all > 1, with every mapped-pixel count > 0,    *)
(* the producer's-accuracy variance of each class is >= 0, so its standard *)
(* error and CI half-width are defined.                                    *)
(***************************************************************************)
C10_ProducerVarianceNonNegative ==
    (/\ HasAccuracy
     /\ \A i \in Classes : RowCount(i) > 1 /\ ColCount(i) > 1 /\ PixelCount(i) > 0)
    => \A j \in Classes :
           /\ Ge(accuracy_metrics.variance_P_j[j], Zero)
           /\ ~IsNaN(accuracy_metrics.producer_accuracy_se[j])
           /\ ~IsNaN(accuracy_metrics.producer_accuracy_ci_value[j])
====
